---- MODULE Spec2Model ----
(***************************************************************************)
(* Model of the shared bucket-list server: the SQLite tables of            *)
(* server/database.js and the Express route handlers of the server file   *)
(* (unnamed/part_000).  better-sqlite3 is synchronous and Node runs one    *)
(* handler at a time, so every route handler without an await is one       *)
(* atomic action; /api/register awaits bcrypt.hash and is two actions.     *)
(***************************************************************************)
EXTENDS Integers, Sequences, FiniteSets, TLC

VARIABLES users, pending, bucket_lists, bucket_list_members, items, last, now

vars == <<users, pending, bucket_lists, bucket_list_members, items, last, now>>

(***************************************************************************)
(* Bounds of the model.                                                    *)
(***************************************************************************)
MaxUsers == 2
MaxPending == 2
MaxLists == 2
MaxItems == 2
MaxCounter == 1
MaxTime == 2

(***************************************************************************)
(* SQL NULL / JavaScript null.  Every id, counter value and target used    *)
(* by the model is greater than this integer.                              *)
(***************************************************************************)
NULL == -1000

(***************************************************************************)
(* Strings are sequences of one-character strings.                         *)
(***************************************************************************)
chars == << "A","B","C","D","E","F","G","H","I","J","K","L","M",
            "N","O","P","Q","R","S","T","U","V","W","X","Y","Z",
            "0","1","2","3","4","5","6","7","8","9" >>

LowerCase == << "a","b","c","d","e","f","g","h","i","j","k","l","m",
                "n","o","p","q","r","s","t","u","v","w","x","y","z" >>

WhiteSpace == {" ", "\t", "\n"}

ToUpperCaseChar(c) ==
  IF \E i \in 1..26 : LowerCase[i] = c
    THEN chars[CHOOSE i \in 1..26 : LowerCase[i] = c]
    ELSE c

toUpperCase(s) == [i \in 1..Len(s) |-> ToUpperCaseChar(s[i])]

RECURSIVE trimStart(_)
trimStart(s) ==
  IF s # <<>> /\ Head(s) \in WhiteSpace THEN trimStart(Tail(s)) ELSE s

RECURSIVE trimEnd(_)
trimEnd(s) ==
  IF s # <<>> /\ s[Len(s)] \in WhiteSpace
    THEN trimEnd(SubSeq(s, 1, Len(s) - 1))
    ELSE s

trim(s) == trimEnd(trimStart(s))

(***************************************************************************)
(* generateShareCode: six draws of Math.floor(Math.random() * 36), each    *)
(* indexing chars.  rnd is the tuple of the six draws.                     *)
(***************************************************************************)
ShareCodeLen == 6

generateShareCodeShort(rnd) == [i \in 1..(ShareCodeLen - 1) |-> chars[rnd[i] + 1]]

generateShareCode(rnd) == [i \in 1..ShareCodeLen |-> chars[rnd[i] + 1]]

(* The draws of Math.random() the model enumerates. *)
RandomDraws == { <<0, 1, 2, 27, 28, 29>>,      \* "ABC123"
                 <<33, 10, 28, 15, 23, 16>> }  \* "7K2PXQ"

SampledCodes == { generateShareCode(r) : r \in RandomDraws }

(***************************************************************************)
(* Tables.  A table is the sequence of its rows in insertion order; the    *)
(* AUTOINCREMENT id of a row is its index.  Of the DEFAULT                 *)
(* CURRENT_TIMESTAMP columns the rows keep created_at of bucket_lists and  *)
(* of items, which two queries order by; created_at of users and joined_at *)
(* of bucket_list_members are left out.                                    *)
(***************************************************************************)
bcryptHash(password) == [alg |-> "bcrypt", of |-> password]

bcryptCompare(password, hash) == hash = bcryptHash(password)

getUserByUsername(username) ==
  IF \E i \in 1..Len(users) : users[i].username = username
    THEN CHOOSE i \in 1..Len(users) : users[i].username = username
    ELSE NULL

getBucketListByCodeLike(shareCode) ==
  LET Like(i) == /\ Len(shareCode) <= Len(bucket_lists[i].share_code)
                 /\ SubSeq(bucket_lists[i].share_code, 1, Len(shareCode)) = shareCode
  IN  IF \E i \in 1..Len(bucket_lists) : Like(i)
        THEN CHOOSE i \in 1..Len(bucket_lists) : Like(i)
        ELSE NULL

getBucketListByCode(shareCode) ==
  IF \E i \in 1..Len(bucket_lists) : bucket_lists[i].share_code = shareCode
    THEN CHOOSE i \in 1..Len(bucket_lists) : bucket_lists[i].share_code = shareCode
    ELSE NULL

getBucketListById(id) == IF id \in 1..Len(bucket_lists) THEN id ELSE NULL

getItem(itemId) == IF itemId \in 1..Len(items) THEN itemId ELSE NULL

isMemberSwapped(bucketListId, userId) ==
  \E i \in 1..Len(bucket_list_members) :
    /\ bucket_list_members[i].bucket_list_id = userId
    /\ bucket_list_members[i].user_id = bucketListId

isMemberAlways(bucketListId, userId) == TRUE

isMemberNever(bucketListId, userId) == FALSE

isMember(bucketListId, userId) ==
  \E i \in 1..Len(bucket_list_members) :
    /\ bucket_list_members[i].bucket_list_id = bucketListId
    /\ bucket_list_members[i].user_id = userId

(* INSERT OR REPLACE under PRIMARY KEY (user_id). *)
addMemberReplacing(rows, bucketListId, userId) ==
  Append(SelectSeq(rows, LAMBDA row : row.user_id # userId),
         [user_id |-> userId, bucket_list_id |-> bucketListId])

(* INSERT OR IGNORE under PRIMARY KEY (user_id, bucket_list_id). *)
addMember(rows, bucketListId, userId) ==
  IF \E i \in 1..Len(rows) : /\ rows[i].bucket_list_id = bucketListId
                             /\ rows[i].user_id = userId
    THEN rows
    ELSE Append(rows, [user_id |-> userId, bucket_list_id |-> bucketListId])

getMembers(bucketListId) ==
  { bucket_list_members[i].user_id :
      i \in { j \in 1..Len(bucket_list_members) :
                bucket_list_members[j].bucket_list_id = bucketListId } }

getItems(bucketListId) ==
  { i \in 1..Len(items) : items[i].bucket_list_id = bucketListId }

(* The orders in which a SELECT may return the rows S: every enumeration of
   S in which no row comes after a row that the ORDER BY places after it.
   Rows that the ORDER BY does not tell apart come in any order. *)
Enumerations(S) ==
  { f \in [1..Cardinality(S) -> S] :
      \A i \in 1..Cardinality(S), j \in 1..Cardinality(S) : i # j => f[i] # f[j] }

OrderedBy(S, after) ==
  { f \in Enumerations(S) :
      \A i \in 1..Cardinality(S), j \in 1..Cardinality(S) :
        i < j => <<f[i], f[j]>> \notin after }

(* getItems with its ORDER BY: CASE WHEN parent_item_id IS NULL THEN 0 ELSE
   1 END, parent_item_id, created_at ASC. *)
getItemsOrder(bucketListId) ==
  LET rows == getItems(bucketListId)
      IsChild(a) == IF items[a].parent_item_id = NULL THEN 0 ELSE 1
      After(a, b) ==
        \/ IsChild(a) > IsChild(b)
        \/ /\ IsChild(a) = IsChild(b)
           /\ items[a].parent_item_id > items[b].parent_item_id
        \/ /\ IsChild(a) = IsChild(b)
           /\ items[a].parent_item_id = items[b].parent_item_id
           /\ items[a].created_at > items[b].created_at
  IN  OrderedBy(rows, { p \in rows \X rows : After(p[1], p[2]) })

(* getUserBucketLists: SELECT DISTINCT bl.* of the lists joined with the
   memberships of the user, ORDER BY bl.created_at DESC. *)
getUserBucketLists(userId) ==
  LET rows == { l \in 1..Len(bucket_lists) : isMember(l, userId) }
      After(a, b) == bucket_lists[a].created_at < bucket_lists[b].created_at
  IN  OrderedBy(rows, { p \in rows \X rows : After(p[1], p[2]) })

(***************************************************************************)
(* Every route handler is an operator from the request (and the tables) to *)
(* its reply: the HTTP status, the error message and the tables as the     *)
(* handler leaves them.  The action of the handler stores the tables and   *)
(* records the status and the message in last (with the share code the     *)
(* client sent, for a join).  An action binds the reply of its handler     *)
(* with \E reply \in { ... }, a set of one element.                        *)
(***************************************************************************)
Done(op, code, reply) ==
  last' = [op |-> op, code |-> code, status |-> reply.status, error |-> reply.error]

Init ==
  /\ users = <<>>
  /\ pending = <<>>
  /\ bucket_lists = <<>>
  /\ bucket_list_members = <<>>
  /\ items = <<>>
  /\ last = [op |-> "none", code |-> <<>>, status |-> 200, error |-> ""]
  /\ now = 1

(* CURRENT_TIMESTAMP has a resolution of one second: now is the second the
   clock shows, and it shows the next one after Tick.  Requests between two
   ticks run within the same second. *)
Tick ==
  /\ now < MaxTime
  /\ now' = now + 1
  /\ UNCHANGED <<users, pending, bucket_lists, bucket_list_members, items, last>>

(* req.session.userId: requireAuth lets through the sessions that register
   or login opened, i.e. the ids of existing users. *)
Sessions == 1..Len(users)

(***************************************************************************)
(* POST /api/register.  The handler awaits bcrypt.hash between the lookup  *)
(* of the username and the INSERT: registerCheck runs up to the await,     *)
(* registerInsert after it, and other handlers run in between.             *)
(***************************************************************************)
registerCheck(username, password) ==
  IF username = <<>> \/ password = <<>>
    THEN [status |-> 400, error |-> "Username and password are required"]
  ELSE IF Len(username) < 3
    THEN [status |-> 400, error |-> "Username must be at least 3 characters"]
  ELSE IF Len(password) < 6
    THEN [status |-> 400, error |-> "Password must be at least 6 characters"]
  ELSE IF getUserByUsername(username) # NULL
    THEN [status |-> 400, error |-> "Username already exists"]
  ELSE [status |-> 200, error |-> ""]

(* createUser: INSERT INTO users under UNIQUE(username); a duplicate makes
   stmt.run throw and the handler's catch answers 500. *)
registerInsertNoUnique(username, passwordHash) ==
  [status |-> 200, error |-> "",
   users |-> Append(users, [username |-> username, password_hash |-> passwordHash]),
   id |-> Len(users) + 1]

registerInsert(username, passwordHash) ==
  IF getUserByUsername(username) # NULL
    THEN [status |-> 500, error |-> "Registration failed", users |-> users,
          id |-> NULL]
    ELSE [status |-> 200, error |-> "",
          users |-> Append(users, [username |-> username,
                                   password_hash |-> passwordHash]),
          id |-> Len(users) + 1]

RegisterBegin(username, password) ==
  \E reply \in { registerCheck(username, password) } :
      /\ UNCHANGED <<users, bucket_lists, bucket_list_members, items, now>>
      /\ IF reply.status = 200
           THEN /\ Len(pending) < MaxPending
                /\ pending' = Append(pending, [username |-> username,
                                               password |-> password])
                /\ Done("hash", <<>>, reply)
           ELSE /\ UNCHANGED pending
                /\ Done("register", <<>>, reply)

RegisterFinish(k) ==
  /\ k \in 1..Len(pending)
  /\ \E reply \in { registerInsert(pending[k].username, bcryptHash(pending[k].password)) } :
         /\ Len(reply.users) <= MaxUsers
         /\ users' = reply.users
         /\ Done("register", <<>>, reply)
  /\ pending' = SubSeq(pending, 1, k - 1) \o SubSeq(pending, k + 1, Len(pending))
  /\ UNCHANGED <<bucket_lists, bucket_list_members, items, now>>

(***************************************************************************)
(* POST /api/login.  The handler reads the user row, awaits bcrypt.compare *)
(* and answers; it writes no table and no request changes a user row, so   *)
(* that the two halves are one action.                                     *)
(***************************************************************************)
loginHandler(username, password) ==
  IF username = <<>> \/ password = <<>>
    THEN [status |-> 400, error |-> "Username and password are required", id |-> NULL]
  ELSE IF getUserByUsername(username) = NULL
    THEN [status |-> 401, error |-> "Invalid credentials", id |-> NULL]
  ELSE IF ~bcryptCompare(password, users[getUserByUsername(username)].password_hash)
    THEN [status |-> 401, error |-> "Invalid credentials", id |-> NULL]
  ELSE [status |-> 200, error |-> "", id |-> getUserByUsername(username)]

Login(username, password) ==
  /\ Done("login", <<>>, loginHandler(username, password))
  /\ UNCHANGED <<users, pending, bucket_lists, bucket_list_members, items, now>>

(***************************************************************************)
(* POST /api/bucket-lists                                                  *)
(***************************************************************************)
MaxAttempts == 10

(* The loop `while (getBucketListByCode(shareCode) && attempts < 10)`:
   shareCodes is the set of values shareCode can hold at the loop head with
   this value of attempts; the result is the set of (shareCode, attempts)
   with which the loop can exit. *)
RECURSIVE ShareCodeLoopOneMore(_, _)
ShareCodeLoopOneMore(shareCodes, attempts) ==
  LET again == { c \in shareCodes :
                   getBucketListByCode(c) # NULL /\ attempts <= MaxAttempts }
      exits == { [shareCode |-> c, attempts |-> attempts] :
                   c \in shareCodes \ again }
  IN  IF again = {}
        THEN exits
        ELSE exits \cup ShareCodeLoopOneMore(SampledCodes, attempts + 1)

RECURSIVE ShareCodeLoop(_, _)
ShareCodeLoop(shareCodes, attempts) ==
  LET again == { c \in shareCodes :
                   getBucketListByCode(c) # NULL /\ attempts < MaxAttempts }
      exits == { [shareCode |-> c, attempts |-> attempts] :
                   c \in shareCodes \ again }
  IN  IF again = {}
        THEN exits
        ELSE exits \cup ShareCodeLoop(SampledCodes, attempts + 1)

(* The same loop on one run of the generator: samples[1] is the code drawn
   before the loop, samples[attempts + 2] the code drawn in the iteration
   that raises attempts to attempts + 1. *)
RECURSIVE RunShareCodeLoop(_, _, _)
RunShareCodeLoop(samples, shareCode, attempts) ==
  IF getBucketListByCode(shareCode) # NULL /\ attempts < MaxAttempts
    THEN RunShareCodeLoop(samples, samples[attempts + 2], attempts + 1)
    ELSE [shareCode |-> shareCode, attempts |-> attempts]

(* createBucketList: the INSERT into bucket_lists, then addMember for the
   creator.  The two statements run in autocommit mode, without a
   transaction; memberInsertFails is the outcome of the second statement's
   stmt.run (a storage error makes it throw). *)
createBucketListNoMember(name, shareCode, createdBy, memberInsertFails) ==
  [lists   |-> Append(bucket_lists, [name |-> name, share_code |-> shareCode,
                                     created_by |-> createdBy, created_at |-> now]),
   members |-> bucket_list_members,
   threw   |-> memberInsertFails]

createBucketList(name, shareCode, createdBy, memberInsertFails) ==
  [lists   |-> Append(bucket_lists, [name |-> name, share_code |-> shareCode,
                                     created_by |-> createdBy, created_at |-> now]),
   members |-> IF memberInsertFails
                 THEN bucket_list_members
                 ELSE addMember(bucket_list_members, Len(bucket_lists) + 1, createdBy),
   threw   |-> memberInsertFails]

createListHandlerLateExhaust(userId, name, exit, memberInsertFails) ==
  LET Reply(status, error, lists, members) ==
        [status |-> status, error |-> error, lists |-> lists, members |-> members,
         shareCode |-> exit.shareCode, attempts |-> exit.attempts]
  IN
  IF name = <<>> \/ Len(trim(name)) = 0
    THEN Reply(400, "Bucket list name is required", bucket_lists, bucket_list_members)
  ELSE IF exit.attempts >= MaxAttempts /\ getBucketListByCode(exit.shareCode) # NULL
    THEN Reply(500, "Failed to generate unique share code",
               bucket_lists, bucket_list_members)
  ELSE IF getBucketListByCode(exit.shareCode) # NULL
    THEN Reply(500, "Failed to create bucket list", bucket_lists, bucket_list_members)
  ELSE LET r == createBucketList(trim(name), exit.shareCode, userId, memberInsertFails)
       IN  IF r.threw
             THEN Reply(500, "Failed to create bucket list", r.lists, r.members)
             ELSE Reply(200, "", r.lists, r.members)

createListHandler(userId, name, exit, memberInsertFails) ==
  LET Reply(status, error, lists, members) ==
        [status |-> status, error |-> error, lists |-> lists, members |-> members,
         shareCode |-> exit.shareCode, attempts |-> exit.attempts]
  IN
  IF name = <<>> \/ Len(trim(name)) = 0
    THEN Reply(400, "Bucket list name is required", bucket_lists, bucket_list_members)
  ELSE IF exit.attempts >= MaxAttempts
    THEN Reply(500, "Failed to generate unique share code",
               bucket_lists, bucket_list_members)
  ELSE IF getBucketListByCode(exit.shareCode) # NULL
    THEN \* UNIQUE constraint on bucket_lists.share_code: the INSERT throws
         Reply(500, "Failed to create bucket list", bucket_lists, bucket_list_members)
  ELSE LET r == createBucketList(trim(name), exit.shareCode, userId, memberInsertFails)
       IN  IF r.threw
             THEN Reply(500, "Failed to create bucket list", r.lists, r.members)
             ELSE Reply(200, "", r.lists, r.members)

CreateList(userId, name, memberInsertFails) ==
  /\ userId \in Sessions
  /\ \E exit \in ShareCodeLoop(SampledCodes, 0) :
       \E reply \in { createListHandler(userId, name, exit, memberInsertFails) } :
           /\ Len(reply.lists) <= MaxLists
           /\ bucket_lists' = reply.lists
           /\ bucket_list_members' = reply.members
           /\ Done("createList", <<>>, reply)
  /\ UNCHANGED <<users, pending, items, now>>

(***************************************************************************)
(* POST /api/bucket-lists/join                                             *)
(***************************************************************************)
normalizeCodeNoUpper(code) == trim(code)

normalizeCode(code) == toUpperCase(trim(code))

joinListHandler(userId, code) ==
  LET Reply(status, error, list, members) ==
        [status |-> status, error |-> error, list |-> list, members |-> members]
  IN
  IF code = <<>> \/ Len(trim(code)) = 0
    THEN Reply(400, "Share code is required", NULL, bucket_list_members)
  ELSE LET bucketList == getBucketListByCode(normalizeCode(code))
       IN  IF bucketList = NULL
             THEN Reply(404, "Bucket list not found", NULL, bucket_list_members)
           ELSE IF isMember(bucketList, userId)
             THEN Reply(400, "Already a member of this bucket list", NULL,
                        bucket_list_members)
           ELSE Reply(200, "", bucketList,
                      addMember(bucket_list_members, bucketList, userId))

JoinList(userId, code) ==
  /\ userId \in Sessions
  /\ \E reply \in { joinListHandler(userId, code) } :
         /\ bucket_list_members' = reply.members
         /\ Done("joinList", code, reply)
  /\ UNCHANGED <<users, pending, bucket_lists, items, now>>

(***************************************************************************)
(* GET /api/bucket-lists                                                   *)
(***************************************************************************)
GetBucketLists(userId) ==
  /\ userId \in Sessions
  /\ \E bucketLists \in getUserBucketLists(userId) :
       Done("getLists", <<>>, [status |-> 200, error |-> ""])
  /\ UNCHANGED <<users, pending, bucket_lists, bucket_list_members, items, now>>

(***************************************************************************)
(* GET /api/bucket-lists/:id                                               *)
(***************************************************************************)
getListHandler(userId, bucketListId) ==
  LET Reply(status, error, its, mems) ==
        [status |-> status, error |-> error, items |-> its, members |-> mems]
  IN
  IF getBucketListById(bucketListId) = NULL
    THEN Reply(404, "Bucket list not found", {}, {})
  ELSE IF ~isMember(bucketListId, userId)
    THEN Reply(403, "Access denied", {}, {})
  ELSE Reply(200, "", getItems(bucketListId), getMembers(bucketListId))

GetList(userId, bucketListId) ==
  /\ userId \in Sessions
  /\ Done("getList", <<>>, getListHandler(userId, bucketListId))
  /\ UNCHANGED <<users, pending, bucket_lists, bucket_list_members, items, now>>

(***************************************************************************)
(* POST /api/items                                                         *)
(***************************************************************************)
NullText == <<>>

(* JavaScript truthiness of a nullable integer. *)
Truthy(n) == n # NULL /\ n # 0

(* createItem of database.js: the INSERT into items. *)
createItemStartsAtTarget(bucketListId, text, type, description, parentItemId, counterValue, counterTarget) ==
  Append(items,
         [bucket_list_id |-> bucketListId,
          text           |-> text,
          type           |-> type,
          description    |-> description,
          parent_item_id |-> IF Truthy(parentItemId) THEN parentItemId ELSE NULL,
          is_checked     |-> 0,
          checked_by     |-> NULL,
          checked_at     |-> NULL,
          counter_value  |-> IF Truthy(counterTarget) THEN counterTarget ELSE 0,
          counter_target |-> IF Truthy(counterTarget) THEN counterTarget ELSE NULL,
          created_at     |-> now])

createItem(bucketListId, text, type, description, parentItemId, counterValue, counterTarget) ==
  Append(items,
         [bucket_list_id |-> bucketListId,
          text           |-> text,
          type           |-> type,
          description    |-> description,
          parent_item_id |-> IF Truthy(parentItemId) THEN parentItemId ELSE NULL,
          is_checked     |-> 0,
          checked_by     |-> NULL,
          checked_at     |-> NULL,
          counter_value  |-> IF Truthy(counterValue) THEN counterValue ELSE 0,
          counter_target |-> IF Truthy(counterTarget) THEN counterTarget ELSE NULL,
          created_at     |-> now])

(* parentItem.bucket_list_id !== parseInt(bucket_list_id) *)
parentInOtherListNever(parentItem, bucket_list_id) == FALSE

parentInOtherListWrongField(parentItem, bucket_list_id) == parentItem # bucket_list_id

parentInOtherList(parentItem, bucket_list_id) ==
  items[parentItem].bucket_list_id # bucket_list_id

addItemHandlerParentUnchecked(userId, bucket_list_id, text, type, description, parent_item_id, counter_target) ==
  LET Fail(status, error) ==
        [status |-> status, error |-> error, items |-> items, item |-> NULL]
  IN
  IF ~Truthy(bucket_list_id) \/ text = <<>> \/ Len(trim(text)) = 0
    THEN Fail(400, "Bucket list ID and item text are required")
  ELSE IF type # "check" /\ type # "counter"
    THEN Fail(400, "Item type must be check or counter")
  ELSE IF getBucketListById(bucket_list_id) = NULL
    THEN Fail(404, "Bucket list not found")
  ELSE IF ~isMember(bucket_list_id, userId)
    THEN Fail(403, "Access denied")
  ELSE [status |-> 200, error |-> "",
        items  |-> createItem(bucket_list_id, trim(text), type,
                              IF Len(trim(description)) > 0
                                THEN trim(description) ELSE NullText,
                              IF Truthy(parent_item_id) THEN parent_item_id ELSE NULL,
                              0,
                              IF Truthy(counter_target) THEN counter_target ELSE NULL),
        item   |-> Len(items) + 1]

addItemHandlerParentFirst(userId, bucket_list_id, text, type, description, parent_item_id, counter_target) ==
  LET Fail(status, error) ==
        [status |-> status, error |-> error, items |-> items, item |-> NULL]
  IN
  IF ~Truthy(bucket_list_id) \/ text = <<>> \/ Len(trim(text)) = 0
    THEN Fail(400, "Bucket list ID and item text are required")
  ELSE IF type # "check" /\ type # "counter"
    THEN Fail(400, "Item type must be check or counter")
  ELSE IF getBucketListById(bucket_list_id) = NULL
    THEN Fail(404, "Bucket list not found")
  ELSE IF parent_item_id # NULL /\ getItem(parent_item_id) = NULL
    THEN Fail(404, "Parent item not found")
  ELSE IF ~isMember(bucket_list_id, userId)
    THEN Fail(403, "Access denied")
  ELSE IF parent_item_id # NULL /\ parentInOtherList(parent_item_id, bucket_list_id)
    THEN Fail(400, "Parent item must belong to the same bucket list")
  ELSE [status |-> 200, error |-> "",
        items  |-> createItem(bucket_list_id, trim(text), type,
                              IF Len(trim(description)) > 0
                                THEN trim(description) ELSE NullText,
                              IF Truthy(parent_item_id) THEN parent_item_id ELSE NULL,
                              0,
                              IF Truthy(counter_target) THEN counter_target ELSE NULL),
        item   |-> Len(items) + 1]

addItemHandler(userId, bucket_list_id, text, type, description, parent_item_id, counter_target) ==
  LET Fail(status, error) ==
        [status |-> status, error |-> error, items |-> items, item |-> NULL]
  IN
  IF ~Truthy(bucket_list_id) \/ text = <<>> \/ Len(trim(text)) = 0
    THEN Fail(400, "Bucket list ID and item text are required")
  ELSE IF type # "check" /\ type # "counter"
    THEN Fail(400, "Item type must be check or counter")
  ELSE IF getBucketListById(bucket_list_id) = NULL
    THEN Fail(404, "Bucket list not found")
  ELSE IF ~isMember(bucket_list_id, userId)
    THEN Fail(403, "Access denied")
  ELSE IF parent_item_id # NULL /\ getItem(parent_item_id) = NULL
    THEN Fail(404, "Parent item not found")
  ELSE IF parent_item_id # NULL /\ parentInOtherList(parent_item_id, bucket_list_id)
    THEN Fail(400, "Parent item must belong to the same bucket list")
  ELSE [status |-> 200, error |-> "",
        items  |-> createItem(bucket_list_id, trim(text), type,
                              IF Len(trim(description)) > 0
                                THEN trim(description) ELSE NullText,
                              IF Truthy(parent_item_id) THEN parent_item_id ELSE NULL,
                              0,
                              IF Truthy(counter_target) THEN counter_target ELSE NULL),
        item   |-> Len(items) + 1]

AddItem(userId, bucket_list_id, text, type, description, parent_item_id, counter_target) ==
  /\ userId \in Sessions
  /\ \E reply \in { addItemHandler(userId, bucket_list_id, text, type, description,
                                     parent_item_id, counter_target) } :
         /\ Len(reply.items) <= MaxItems
         /\ items' = reply.items
         /\ Done("addItem", <<>>, reply)
  /\ UNCHANGED <<users, pending, bucket_lists, bucket_list_members, now>>

(***************************************************************************)
(* PATCH /api/items/:id/toggle                                             *)
(***************************************************************************)
(* toggleItem of database.js: one of its two UPDATE statements, on the
   items table tbl. *)
toggleItemKeepsChecker(tbl, itemId, userId, isChecked) ==
  IF isChecked
    THEN [tbl EXCEPT ![itemId].is_checked = 1,
                     ![itemId].checked_by = userId,
                     ![itemId].checked_at = now]
    ELSE [tbl EXCEPT ![itemId].is_checked = 0]

toggleItemAlwaysChecks(tbl, itemId, userId, isChecked) ==
  [tbl EXCEPT ![itemId].is_checked = 1,
              ![itemId].checked_by = userId,
              ![itemId].checked_at = now]

toggleItemByFirstUser(tbl, itemId, userId, isChecked) ==
  IF isChecked
    THEN [tbl EXCEPT ![itemId].is_checked = 1,
                     ![itemId].checked_by = 1,
                     ![itemId].checked_at = now]
    ELSE [tbl EXCEPT ![itemId].is_checked = 0,
                     ![itemId].checked_by = NULL,
                     ![itemId].checked_at = NULL]

(* The UPDATE statements without WHERE id = ?. *)
toggleItemEveryRow(tbl, itemId, userId, isChecked) ==
  [i \in 1..Len(tbl) |->
     IF isChecked
       THEN [tbl[i] EXCEPT !.is_checked = 1, !.checked_by = userId, !.checked_at = now]
       ELSE [tbl[i] EXCEPT !.is_checked = 0, !.checked_by = NULL, !.checked_at = NULL]]

toggleItemNoTimestamp(tbl, itemId, userId, isChecked) ==
  IF isChecked
    THEN [tbl EXCEPT ![itemId].is_checked = 1,
                     ![itemId].checked_by = userId]
    ELSE [tbl EXCEPT ![itemId].is_checked = 0,
                     ![itemId].checked_by = NULL,
                     ![itemId].checked_at = NULL]

toggleItemOn(tbl, itemId, userId, isChecked) ==
  IF isChecked
    THEN [tbl EXCEPT ![itemId].is_checked = 1,
                     ![itemId].checked_by = userId,
                     ![itemId].checked_at = now]
    ELSE [tbl EXCEPT ![itemId].is_checked = 0,
                     ![itemId].checked_by = NULL,
                     ![itemId].checked_at = NULL]

toggleItem(itemId, userId, isChecked) == toggleItemOn(items, itemId, userId, isChecked)

(* The handler, run on the items table tbl (the memberships are those of
   the state: no toggle changes them).  The variant without the type check
   is the handler of server/server.js. *)
toggleHandlerNoTypeCheck(tbl, userId, itemId) ==
  LET Reply(status, error, its) == [status |-> status, error |-> error, items |-> its]
  IN
  IF ~(itemId \in 1..Len(tbl))
    THEN Reply(404, "Item not found", tbl)
  ELSE IF ~isMember(tbl[itemId].bucket_list_id, userId)
    THEN Reply(403, "Access denied", tbl)
  ELSE Reply(200, "", toggleItemOn(tbl, itemId, userId, tbl[itemId].is_checked = 0))

toggleHandlerWritesBeforeMemberCheck(tbl, userId, itemId) ==
  LET Reply(status, error, its) == [status |-> status, error |-> error, items |-> its]
  IN
  IF ~(itemId \in 1..Len(tbl))
    THEN Reply(404, "Item not found", tbl)
  ELSE IF tbl[itemId].type # "check"
    THEN Reply(400, "Only checkbox items can be toggled", tbl)
  ELSE IF ~isMember(tbl[itemId].bucket_list_id, userId)
    THEN Reply(403, "Access denied",
               toggleItemOn(tbl, itemId, userId, tbl[itemId].is_checked = 0))
  ELSE Reply(200, "", toggleItemOn(tbl, itemId, userId, tbl[itemId].is_checked = 0))

toggleHandlerOn(tbl, userId, itemId) ==
  LET Reply(status, error, its) == [status |-> status, error |-> error, items |-> its]
  IN
  IF ~(itemId \in 1..Len(tbl))
    THEN Reply(404, "Item not found", tbl)
  ELSE IF tbl[itemId].type # "check"
    THEN Reply(400, "Only checkbox items can be toggled", tbl)
  ELSE IF ~isMember(tbl[itemId].bucket_list_id, userId)
    THEN Reply(403, "Access denied", tbl)
  ELSE Reply(200, "", toggleItemOn(tbl, itemId, userId, tbl[itemId].is_checked = 0))

toggleHandler(userId, itemId) == toggleHandlerOn(items, userId, itemId)

ToggleItem(userId, itemId) ==
  /\ userId \in Sessions
  /\ \E reply \in { toggleHandler(userId, itemId) } :
         /\ items' = reply.items
         /\ Done("toggle", <<>>, reply)
  /\ UNCHANGED <<users, pending, bucket_lists, bucket_list_members, now>>

(***************************************************************************)
(* POST /api/items/:id/counter                                             *)
(***************************************************************************)
Max(a, b) == IF a >= b THEN a ELSE b
Min(a, b) == IF a <= b THEN a ELSE b

(* updateCounter of database.js: the value it writes. *)
clampedValue(item, delta) ==
  LET newValue == Max(0, item.counter_value + delta)
      target   == IF Truthy(item.counter_target) THEN item.counter_target ELSE NULL
  IN  IF Truthy(target) THEN Min(newValue, target) ELSE newValue

counterHandlerNoTypeCheck(userId, itemId, delta) ==
  LET Reply(status, error, its) == [status |-> status, error |-> error, items |-> its]
  IN
  IF delta = NULL
    THEN Reply(400, "Delta value is required", items)
  ELSE IF getItem(itemId) = NULL
    THEN Reply(404, "Item not found", items)
  ELSE IF ~isMember(items[itemId].bucket_list_id, userId)
    THEN Reply(403, "Access denied", items)
  ELSE Reply(200, "", [items EXCEPT ![itemId].counter_value =
                                       clampedValue(items[itemId], delta)])

counterHandler(userId, itemId, delta) ==
  LET Reply(status, error, its) == [status |-> status, error |-> error, items |-> its]
  IN
  IF delta = NULL
    THEN Reply(400, "Delta value is required", items)
  ELSE IF getItem(itemId) = NULL
    THEN Reply(404, "Item not found", items)
  ELSE IF items[itemId].type # "counter"
    THEN Reply(400, "Only counter items can be updated", items)
  ELSE IF ~isMember(items[itemId].bucket_list_id, userId)
    THEN Reply(403, "Access denied", items)
  ELSE Reply(200, "", [items EXCEPT ![itemId].counter_value =
                                       clampedValue(items[itemId], delta)])

UpdateCounter(userId, itemId, delta) ==
  /\ userId \in Sessions
  /\ \E reply \in { counterHandler(userId, itemId, delta) } :
         /\ \A i \in 1..Len(reply.items) : reply.items[i].counter_value <= MaxCounter
         /\ items' = reply.items
         /\ Done("counter", <<>>, reply)
  /\ UNCHANGED <<users, pending, bucket_lists, bucket_list_members, now>>

(***************************************************************************)
(* The toggle and counter handlers statement by statement: the read of the *)
(* row (getItem) and the UPDATE are two steps, and a handler between them  *)
(* is a frame of pending with the row it has read.  The handlers are not   *)
(* async and better-sqlite3 is synchronous, so that Node runs such a       *)
(* handler from its first statement to its last before it starts another   *)
(* callback: ThreadFree.  A frame of /api/register (at its await) does not *)
(* hold the thread.                                                        *)
(***************************************************************************)
AtAwait(frame) == "username" \in DOMAIN frame

ThreadFreeOfCounters ==
  \A k \in 1..Len(pending) : AtAwait(pending[k]) \/ pending[k].op = "toggle"

ThreadFreeOfToggles ==
  \A k \in 1..Len(pending) : AtAwait(pending[k]) \/ pending[k].op = "counter"

ThreadFree == \A k \in 1..Len(pending) : AtAwait(pending[k])

Without(k) == SubSeq(pending, 1, k - 1) \o SubSeq(pending, k + 1, Len(pending))

(* Lines 345-362 of the toggle handler: the checks, and the read of the row
   from which newCheckedState is computed. *)
ToggleRead(userId, itemId) ==
  /\ ThreadFree
  /\ userId \in Sessions
  /\ \E reply \in { toggleHandler(userId, itemId) } :
         IF reply.status # 200
           THEN /\ Done("toggle", <<>>, reply)
                /\ UNCHANGED pending
           ELSE /\ Len(pending) < MaxPending
                /\ pending' = Append(pending, [op |-> "toggle", userId |-> userId,
                                               itemId |-> itemId, item |-> items[itemId],
                                               delta |-> NULL])
                /\ UNCHANGED last
  /\ UNCHANGED <<users, bucket_lists, bucket_list_members, items, now>>

(* Lines 363-368: toggleItem with the negation of the is_checked read. *)
ToggleWrite(k) ==
  /\ k \in 1..Len(pending)
  /\ pending[k].op = "toggle"
  /\ items' = toggleItemOn(items, pending[k].itemId, pending[k].userId,
                           pending[k].item.is_checked = 0)
  /\ pending' = Without(k)
  /\ last' = [op |-> "toggle", code |-> <<>>, status |-> 200, error |-> ""]
  /\ UNCHANGED <<users, bucket_lists, bucket_list_members, now>>

(* Lines 379-399 of the counter handler and 205-212 of updateCounter: the
   checks, and the read of the row from which the new value is computed. *)
CounterRead(userId, itemId, delta) ==
  /\ ThreadFree
  /\ userId \in Sessions
  /\ \E reply \in { counterHandler(userId, itemId, delta) } :
         IF reply.status # 200
           THEN /\ Done("counter", <<>>, reply)
                /\ UNCHANGED pending
           ELSE /\ Len(pending) < MaxPending
                /\ pending' = Append(pending, [op |-> "counter", userId |-> userId,
                                               itemId |-> itemId, item |-> items[itemId],
                                               delta |-> delta])
                /\ UNCHANGED last
  /\ UNCHANGED <<users, bucket_lists, bucket_list_members, items, now>>

(* Lines 214-215 of updateCounter: the UPDATE with the value computed from
   the row read. *)
CounterWrite(k) ==
  /\ k \in 1..Len(pending)
  /\ pending[k].op = "counter"
  /\ clampedValue(pending[k].item, pending[k].delta) <= MaxCounter
  /\ items' = [items EXCEPT ![pending[k].itemId].counter_value =
                              clampedValue(pending[k].item, pending[k].delta)]
  /\ pending' = Without(k)
  /\ last' = [op |-> "counter", code |-> <<>>, status |-> 200, error |-> ""]
  /\ UNCHANGED <<users, bucket_lists, bucket_list_members, now>>

(***************************************************************************)
(* Inputs of the requests.                                                 *)
(***************************************************************************)
Usernames == { <<"a","n","n">>, <<"b","o","b">>, <<"a","l">> }
Passwords == { <<"s","e","c","r","e","t">>, <<"p","w">> }
ListNames == { <<" ">>, <<" ","T"," ">> }

ToLowerCaseChar(c) ==
  IF \E i \in 1..26 : chars[i] = c
    THEN LowerCase[CHOOSE i \in 1..26 : chars[i] = c]
    ELSE c

(* A share code as a client may type it: lower case, with white space
   around it. *)
Typed(code) == <<" ">> \o [i \in 1..Len(code) |-> ToLowerCaseChar(code[i])] \o <<"\n">>

UnknownCode == <<"N","O","P","E","0","0">>
PartialCode == <<"a","b","c">>

CodeInputs ==
  SampledCodes \cup { Typed(c) : c \in SampledCodes }
               \cup { <<>>, <<" ">>, PartialCode }

UserIds == 1..MaxUsers

(* The ids a request may name: those of the rows of the table, one that
   names no row, and for a list the 0 that the handlers take for a missing
   id. *)
ListIds == 0..(Len(bucket_lists) + 1)
ItemIds == 1..(Len(items) + 1)
Deltas == { NULL, -1, 1 }

BlankText == <<" ">>
SomeText == <<" ","x"," ">>

(* The bodies of POST /api/items: complete checkbox items under every list
   id and parent id, complete counter items under every list id, and
   incomplete bodies (bucket_list_id 0, blank text, unknown type). *)
ItemRequest(l, text, type, p) ==
  [bucket_list_id |-> l, text |-> text, type |-> type, parent_item_id |-> p,
   counter_target |-> NULL]

AddItemRequests ==
  { ItemRequest(l, SomeText, "check", p) : l \in ListIds \ {0}, p \in {NULL} \cup ItemIds }
  \cup { ItemRequest(l, SomeText, "counter", NULL) : l \in ListIds }
  \cup { ItemRequest(1, BlankText, "check", NULL), ItemRequest(1, SomeText, "text", NULL) }

(* The bodies of POST /api/items with each way of failing a check. *)
AddItemInputs ==
  { [bucket_list_id |-> l, text |-> b[1], type |-> b[2], parent_item_id |-> q] :
      l \in {NULL} \cup ListIds,
      b \in { <<SomeText, "counter">>, <<BlankText, "counter">>, <<SomeText, "text">> },
      q \in {NULL, 1, Len(items) + 1} }

(* Runs of the generator within one request: the code drawn before the
   loop and the ten the loop can draw; k draws of one code, then another,
   for k around the ends of the loop. *)
SampleRuns ==
  { [i \in 1..(MaxAttempts + 1) |-> IF i <= k THEN a ELSE b] :
      k \in { 0, 1, MaxAttempts - 1, MaxAttempts, MaxAttempts + 1 },
      a \in SampledCodes, b \in SampledCodes }

(***************************************************************************)
(* Spec: registration, creation and joining of lists, from the empty       *)
(* database.                                                               *)
(***************************************************************************)
Register ==
  \/ \E u \in Usernames, p \in Passwords : RegisterBegin(u, p)
  \/ \E k \in 1..MaxPending : RegisterFinish(k)

Lists ==
  \/ \E u \in UserIds, c \in CodeInputs : JoinList(u, c)
  \/ \E u \in UserIds, l \in ListIds : GetList(u, l)

Next ==
  \/ Register
  \/ \E u \in UserIds, n \in ListNames : CreateList(u, n, FALSE)
  \/ Lists

Spec == Init /\ [][Next]_vars

(* SpecFault: Spec with storage errors in the second statement of
   createBucketList. *)
NextFault ==
  \/ Next
  \/ \E u \in UserIds, n \in ListNames : CreateList(u, n, TRUE)

SpecFault == Init /\ [][NextFault]_vars

(***************************************************************************)
(* SpecAuth: registrations and logins, from the empty database.            *)
(***************************************************************************)
AuthPasswords == Passwords \cup { <<>>, <<"s","e","c","r","e","t","2">> }

NextAuth ==
  \/ \E u \in Usernames, p \in AuthPasswords : RegisterBegin(u, p)
  \/ \E k \in 1..MaxPending : RegisterFinish(k)
  \/ \E u \in Usernames, p \in AuthPasswords : Login(u, p)

SpecAuth == Init /\ [][NextAuth]_vars

(***************************************************************************)
(* SpecItems: the item handlers, from the database in which ann and bob    *)
(* have registered, each has created one list, and bob has joined the list *)
(* of ann.  No handler removes a membership row, and joining is the        *)
(* subject of Spec, so that the membership rows stay those of InitItems.   *)
(***************************************************************************)
InitItems ==
  /\ users = << [username |-> <<"a","n","n">>,
                 password_hash |-> bcryptHash(<<"s","e","c","r","e","t">>)],
                [username |-> <<"b","o","b">>,
                 password_hash |-> bcryptHash(<<"s","e","c","r","e","t">>)] >>
  /\ pending = <<>>
  /\ bucket_lists = << [name |-> <<"T">>,
                        share_code |-> generateShareCode(<<0, 1, 2, 27, 28, 29>>),
                        created_by |-> 1, created_at |-> 1],
                       [name |-> <<"T">>,
                        share_code |-> generateShareCode(<<33, 10, 28, 15, 23, 16>>),
                        created_by |-> 2, created_at |-> 1] >>
  /\ bucket_list_members = << [user_id |-> 1, bucket_list_id |-> 1],
                              [user_id |-> 2, bucket_list_id |-> 2],
                              [user_id |-> 2, bucket_list_id |-> 1] >>
  /\ items = <<>>
  /\ last = [op |-> "joinList",
             code |-> Typed(generateShareCode(<<0, 1, 2, 27, 28, 29>>)),
             status |-> 200, error |-> ""]
  /\ now = 1

NextItems ==
  \/ \E u \in UserIds, l \in ListIds : GetList(u, l)
  \/ \E u \in UserIds, r \in AddItemRequests :
       AddItem(u, r.bucket_list_id, r.text, r.type, NullText, r.parent_item_id,
               r.counter_target)
  \/ \E u \in UserIds, i \in ItemIds : ToggleItem(u, i)
  \/ \E u \in UserIds, i \in ItemIds, d \in Deltas : UpdateCounter(u, i, d)

SpecItems == InitItems /\ [][NextItems]_vars

(***************************************************************************)
(* SpecItemOrder: members add root items and child items and read the      *)
(* lists, within one second or over several.                               *)
(***************************************************************************)
NextItemOrder ==
  \/ \E u \in UserIds, l \in 1..Len(bucket_lists), p \in {NULL} \cup ItemIds :
       AddItem(u, l, SomeText, "check", NullText, p, NULL)
  \/ \E u \in UserIds, l \in ListIds : GetList(u, l)
  \/ Tick

SpecItemOrder == InitItems /\ [][NextItemOrder]_vars

(***************************************************************************)
(* SpecCounters: counter items with the counter_target the client sends    *)
(* (none, zero, negative, positive) and updates by small and large deltas, *)
(* from the database of InitItems.                                         *)
(***************************************************************************)
CounterTargets == { NULL, -1, 0, 1 }
CounterDeltas == { -5, -1, 1, 10 }

CounterRequests ==
  { [ItemRequest(l, SomeText, "counter", NULL) EXCEPT !.counter_target = t] :
      l \in 1..Len(bucket_lists), t \in CounterTargets }

NextCounters ==
  \/ \E u \in UserIds, r \in CounterRequests :
       AddItem(u, r.bucket_list_id, r.text, r.type, NullText, r.parent_item_id,
               r.counter_target)
  \/ \E u \in UserIds, i \in ItemIds, d \in CounterDeltas : UpdateCounter(u, i, d)

SpecCounters == InitItems /\ [][NextCounters]_vars

(***************************************************************************)
(* SpecSteps: the toggle and counter handlers statement by statement, on   *)
(* checkbox and counter items of the lists of InitItems.                   *)
(***************************************************************************)
NextSteps ==
  \/ \E u \in UserIds, l \in 1..Len(bucket_lists), t \in { "check", "counter" } :
       ThreadFree /\ AddItem(u, l, SomeText, t, NullText, NULL, NULL)
  \/ \E u \in UserIds, i \in ItemIds : ToggleRead(u, i)
  \/ \E k \in 1..MaxPending : ToggleWrite(k)
  \/ \E u \in UserIds, i \in ItemIds, d \in Deltas : CounterRead(u, i, d)
  \/ \E k \in 1..MaxPending : CounterWrite(k)

SpecSteps == InitItems /\ [][NextSteps]_vars

(***************************************************************************)
(* SpecScenario: two registered users create lists, join them with the     *)
(* lower-case form of their codes, add checkbox items and toggle them.     *)
(***************************************************************************)
InitScenario ==
  /\ users = << [username |-> <<"a","n","n">>,
                 password_hash |-> bcryptHash(<<"s","e","c","r","e","t">>)],
                [username |-> <<"b","o","b">>,
                 password_hash |-> bcryptHash(<<"s","e","c","r","e","t">>)] >>
  /\ pending = <<>>
  /\ bucket_lists = <<>>
  /\ bucket_list_members = <<>>
  /\ items = <<>>
  /\ last = [op |-> "register", code |-> <<>>, status |-> 200, error |-> ""]
  /\ now = 1

LowerCaseForm(code) == [i \in 1..Len(code) |-> ToLowerCaseChar(code[i])]

NextScenario ==
  \/ \E u \in UserIds : CreateList(u, <<"T","r","i","p">>, FALSE)
  \/ \E u \in UserIds, c \in SampledCodes : JoinList(u, LowerCaseForm(c))
  \/ \E u \in UserIds, l \in ListIds :
       AddItem(u, l, SomeText, "check", NullText, NULL, NULL)
  \/ \E u \in UserIds, i \in ItemIds : ToggleItem(u, i)

SpecScenario == InitScenario /\ [][NextScenario]_vars

(***************************************************************************)
(* SpecListOrder: two registered users create and join lists and ask for   *)
(* their lists, within one second or over several.                         *)
(***************************************************************************)
NextListOrder ==
  \/ \E u \in UserIds, n \in ListNames : CreateList(u, n, FALSE)
  \/ \E u \in UserIds, c \in SampledCodes : JoinList(u, c)
  \/ \E u \in UserIds : GetBucketLists(u)
  \/ Tick

SpecListOrder == InitScenario /\ [][NextListOrder]_vars

(***************************************************************************)
(* SpecTables: every route that writes, from the empty database; one       *)
(* registration at a time.                                                 *)
(***************************************************************************)
NextTables ==
  \/ \E u \in { <<"a","n","n">>, <<"b","o","b">> } :
       pending = <<>> /\ RegisterBegin(u, <<"s","e","c","r","e","t">>)
  \/ \E k \in 1..MaxPending : RegisterFinish(k)
  \/ CreateList(1, <<"T">>, FALSE)
  \/ \E c \in SampledCodes : JoinList(2, c)
  \/ \E t \in {"check", "counter"} : AddItem(1, 1, SomeText, t, NullText, NULL, NULL)
  \/ \E i \in 1..Len(items) : ToggleItem(2, i)
  \/ \E i \in 1..Len(items) : UpdateCounter(1, i, 1)

SpecTables == Init /\ [][NextTables]_vars

(***************************************************************************)
(* SpecFailing: SpecTables with the requests that the routes refuse.       *)
(***************************************************************************)
NextFailing ==
  \/ NextTables
  \/ \E r \in { <<"a","l">>, <<"a","n","n">> } \X { <<"p","w">>, <<>> } :
       RegisterBegin(r[1], r[2])
  \/ CreateList(1, <<" ">>, FALSE)
  \/ \E c \in { <<>>, <<" ">>, PartialCode } : JoinList(2, c)
  \/ \E l \in { NULL, 0, 1, Len(bucket_lists) + 1 }, t \in { SomeText, BlankText } :
       \E ty \in { "counter", "text" }, q \in { NULL, Len(items) + 1 } :
         AddItem(2, l, t, ty, NullText, q, NULL)
  \/ ToggleItem(1, Len(items) + 1)
  \/ \E i \in ItemIds, d \in { NULL, 1 } : UpdateCounter(2, i, d)

SpecFailing == Init /\ [][NextFailing]_vars

(***************************************************************************)
(* Properties.  They speak of the tables directly, not through the         *)
(* helpers of database.js.                                                 *)
(***************************************************************************)
MemberRows(rows, l, u) ==
  { i \in 1..Len(rows) : rows[i].bucket_list_id = l /\ rows[i].user_id = u }

Member(l, u) == MemberRows(bucket_list_members, l, u) # {}

ListIdsInUse == 1..Len(bucket_lists)
ItemIdsInUse == 1..Len(items)

(* C1: in every reachable state the creator (created_by) of every existing
   list is a member of that list; in particular right after a successful
   createList. *)
C1_CreatorIsMember ==
  \A l \in ListIdsInUse : Member(l, bucket_lists[l].created_by)

C1_Witness ==
  /\ last.op = "createList" /\ last.status = 200
  /\ bucket_lists # <<>>
  /\ Member(Len(bucket_lists), bucket_lists[Len(bucket_lists)].created_by)

(* C2: createList is all-or-nothing: a step that adds a list row also adds
   the membership row of its creator and answers 200, and a createList that
   does not answer 200 leaves both tables as they were. *)
C2_CreateListAllOrNothing ==
  [][ /\ (bucket_lists' # bucket_lists) =>
           /\ last'.status = 200
           /\ MemberRows(bucket_list_members', Len(bucket_lists'),
                         bucket_lists'[Len(bucket_lists')].created_by) # {}
      /\ (last'.op = "createList" /\ last'.status # 200) =>
           /\ bucket_lists' = bucket_lists
           /\ bucket_list_members' = bucket_list_members ]_vars

(* C3: in every reachable state no two lists have the same share code, and
   every stored share code has exactly 6 characters, each of A-Z or 0-9. *)
C3_ShareCodesUniqueAndWellFormed ==
  /\ \A i, j \in ListIdsInUse :
       i # j => bucket_lists[i].share_code # bucket_lists[j].share_code
  /\ \A i \in ListIdsInUse :
       /\ Len(bucket_lists[i].share_code) = 6
       /\ \A k \in 1..Len(bucket_lists[i].share_code) :
            \E c \in 1..36 : chars[c] = bucket_lists[i].share_code[k]

C3_Witness ==
  /\ Len(bucket_lists) >= 2
  /\ last.op = "createList" /\ last.status = 200

(* The bodies of addItem that pass the checks the handler makes on the body
   itself: a list id, a text that is not blank, a type of check or counter. *)
BodyOk(r) ==
  /\ r.bucket_list_id # 0
  /\ \E k \in 1..Len(r.text) : r.text[k] \notin WhiteSpace
  /\ r.type \in {"check", "counter"}

addItemReply(u, r) ==
  addItemHandler(u, r.bucket_list_id, r.text, r.type, NullText, r.parent_item_id, r.counter_target)

(* C4: a non-member of list L who calls get list, addItem on L, or
   toggleCheckbox / updateCounter on an item of L receives Forbidden (403),
   whatever the other arguments and the type of the item. *)
C4_NonMemberForbidden ==
  \A u \in Sessions, l \in ListIdsInUse :
    ~Member(l, u) =>
      /\ getListHandler(u, l).status = 403
      /\ \A r \in AddItemRequests :
           r.bucket_list_id = l => addItemReply(u, r).status = 403
      /\ \A i \in ItemIdsInUse :
           items[i].bucket_list_id = l =>
             /\ toggleHandler(u, i).status = 403
             /\ \A d \in Deltas : counterHandler(u, i, d).status = 403

(* C4 as amended: the non-member receives Forbidden (403) when the request
   passes the checks that the handler makes before the membership check
   (addItem: non-blank text and a type of check or counter; toggleCheckbox:
   a checkbox item; updateCounter: a delta and a counter item), and
   InvalidInput (400) when it does not. *)
C4_NonMemberForbiddenAfterValidation ==
  \A u \in Sessions, l \in ListIdsInUse :
    ~Member(l, u) =>
      /\ getListHandler(u, l).status = 403
      /\ \A r \in AddItemRequests :
           r.bucket_list_id = l =>
             addItemReply(u, r).status = IF BodyOk(r) THEN 403 ELSE 400
      /\ \A i \in ItemIdsInUse :
           items[i].bucket_list_id = l =>
             /\ toggleHandler(u, i).status =
                  IF items[i].type = "check" THEN 403 ELSE 400
             /\ \A d \in Deltas :
                  counterHandler(u, i, d).status =
                    IF d # NULL /\ items[i].type = "counter" THEN 403 ELSE 400

C4_Witness ==
  /\ last.op = "toggle" /\ last.status = 403
  /\ \E u \in Sessions, i \in ItemIdsInUse :
       ~Member(items[i].bucket_list_id, u) /\ items[i].type = "check"

(* C5: no request by a user who is not a member of list L creates an item
   in L, changes an item of L, or returns the items or members of L. *)
ItemsOf(tbl, l) ==
  { <<i, tbl[i]>> : i \in { j \in 1..Len(tbl) : tbl[j].bucket_list_id = l } }

C5_NoAccessWithoutMembership ==
  \A u \in Sessions, l \in ListIdsInUse :
    ~Member(l, u) =>
      /\ \A reply \in { getListHandler(u, l) } :
           reply.status # 200 /\ reply.items = {} /\ reply.members = {}
      /\ \A r \in AddItemRequests :
           ItemsOf(addItemReply(u, r).items, l) = ItemsOf(items, l)
      /\ \A i \in ItemIds :
           /\ ItemsOf(toggleHandler(u, i).items, l) = ItemsOf(items, l)
           /\ \A d \in Deltas :
                ItemsOf(counterHandler(u, i, d).items, l) = ItemsOf(items, l)

C5_Witness ==
  /\ last.op = "addItem" /\ last.status = 403
  /\ \E u \in Sessions, l \in ListIdsInUse : ~Member(l, u) /\ ItemsOf(items, l) # {}

(* C6: a join with a valid code by a user who is not a member of the list
   succeeds and leaves exactly one membership row (user, list); in the
   state it leads to, where the user is a member, the same join fails with
   "Already a member" (400), adds nothing, and the row is still the only
   one for (user, list). *)
Canonical(code) == toUpperCase(trim(code))

C6_JoinTwice ==
  \A u \in Sessions, l \in ListIdsInUse, c \in CodeInputs :
    bucket_lists[l].share_code = Canonical(c) =>
      \A reply \in { joinListHandler(u, c) } :
        IF ~Member(l, u)
          THEN /\ reply.status = 200
               /\ Cardinality(MemberRows(reply.members, l, u)) = 1
          ELSE /\ reply.status = 400
               /\ reply.error = "Already a member of this bucket list"
               /\ reply.members = bucket_list_members
               /\ Cardinality(MemberRows(bucket_list_members, l, u)) = 1

C6_Witness ==
  /\ last.op = "joinList"
  /\ last.error = "Already a member of this bucket list"
  /\ \E l \in ListIdsInUse, u \in Sessions :
       /\ bucket_lists[l].share_code = Canonical(last.code)
       /\ u # bucket_lists[l].created_by
       /\ Cardinality(MemberRows(bucket_list_members, l, u)) = 1

(* C7: joinList with a code that no existing list has fails with NotFound
   (404) and adds no membership. *)
NoListHas(code) == \A l \in ListIdsInUse : bucket_lists[l].share_code # Canonical(code)

C7_UnknownCodeNotFound ==
  \A u \in Sessions, c \in CodeInputs :
    NoListHas(c) =>
      \A reply \in { joinListHandler(u, c) } :
        /\ reply.status = 404
        /\ reply.members = bucket_list_members

(* C7 as amended: joinList with a code that is not blank and that no
   existing list has fails with NotFound (404); with a blank code it fails
   with InvalidInput (400); in both cases no membership is added. *)
Blank(code) == \A k \in 1..Len(code) : code[k] \in WhiteSpace

C7_UnknownCodeNotFoundUnlessBlank ==
  \A u \in Sessions, c \in CodeInputs :
    NoListHas(c) =>
      \A reply \in { joinListHandler(u, c) } :
        /\ reply.status = IF Blank(c) THEN 400 ELSE 404
        /\ reply.members = bucket_list_members

C7_Witness ==
  /\ last.op = "joinList" /\ last.status = 404
  /\ ~Blank(last.code) /\ NoListHas(last.code)
  /\ bucket_lists # <<>>

(* C8: for every existing list with code C and every input that equals C
   after trimming and upper-casing, joinList by a non-member succeeds and
   adds the membership of exactly that list. *)
C8_JoinNormalizesCode ==
  \A u \in Sessions, l \in ListIdsInUse, c \in CodeInputs :
    (bucket_lists[l].share_code = Canonical(c) /\ ~Member(l, u)) =>
      \A reply \in { joinListHandler(u, c) } :
        /\ reply.status = 200
        /\ reply.list = l
        /\ reply.members =
             Append(bucket_list_members, [user_id |-> u, bucket_list_id |-> l])

C8_Witness ==
  /\ last.op = "joinList" /\ last.status = 200
  /\ \E l \in ListIdsInUse :
       /\ last.code = Typed(bucket_lists[l].share_code)
       /\ last.code # bucket_lists[l].share_code
       /\ \E u \in Sessions : u # bucket_lists[l].created_by /\ Member(l, u)

(* C9: in every reachable state every item whose parent_item_id is set
   references an existing item of the same list. *)
C9_ParentInSameList ==
  \A i \in ItemIdsInUse :
    items[i].parent_item_id # NULL =>
      /\ items[i].parent_item_id \in ItemIdsInUse
      /\ items[items[i].parent_item_id].bucket_list_id = items[i].bucket_list_id

C9_Witness ==
  /\ last.op = "addItem" /\ last.status = 200
  /\ \E i \in ItemIdsInUse : items[i].parent_item_id # NULL

(* C10: addItem by a member of list L with valid text and type and a
   parentItemId naming an existing item of another list fails with
   InvalidInput (400) and creates no item. *)
C10_ParentInOtherListRejected ==
  \A u \in Sessions, r \in AddItemRequests :
    ( /\ BodyOk(r)
      /\ r.bucket_list_id \in ListIdsInUse
      /\ Member(r.bucket_list_id, u)
      /\ r.parent_item_id \in ItemIdsInUse
      /\ items[r.parent_item_id].bucket_list_id # r.bucket_list_id )
    =>
    ( \A reply \in { addItemReply(u, r) } :
        /\ reply.status = 400
        /\ reply.error = "Parent item must belong to the same bucket list"
        /\ reply.items = items )

C10_Witness ==
  /\ last.op = "addItem" /\ last.status = 400
  /\ last.error = "Parent item must belong to the same bucket list"

(* C11: toggleCheckbox by a member on a checkbox item answers 200 and
   flips the stored is_checked of that item: from unchecked to checked with
   checked_by the acting user and checked_at set, from checked to unchecked
   with checked_by and checked_at cleared; the request carries no checked
   state, and nothing else of the table changes. *)
Flipped(item, userId) ==
  IF item.is_checked = 0
    THEN [item EXCEPT !.is_checked = 1, !.checked_by = userId, !.checked_at = now]
    ELSE [item EXCEPT !.is_checked = 0, !.checked_by = NULL, !.checked_at = NULL]

C11_ToggleFlipsStoredValue ==
  \A u \in Sessions, i \in ItemIdsInUse :
    (items[i].type = "check" /\ Member(items[i].bucket_list_id, u)) =>
      \A reply \in { toggleHandler(u, i) } :
        /\ reply.status = 200
        /\ reply.items = [items EXCEPT ![i] = Flipped(items[i], u)]
        /\ reply.items[i].checked_at # NULL <=> items[i].is_checked = 0

C11_Witness ==
  /\ last.op = "toggle" /\ last.status = 200
  /\ \E i \in ItemIdsInUse :
       /\ items[i].type = "check" /\ items[i].is_checked = 1
       /\ items[i].checked_by \in Sessions /\ items[i].checked_at # NULL

(* C12 as claimed: two successive toggles of a checkbox item by members
   return is_checked to its value and leave checked_by and checked_at
   cleared. *)
TwiceToggled(u1, u2, i) ==
  toggleHandlerOn(toggleHandler(u1, i).items, u2, i)

C12_ToggleTwiceClears ==
  \A u1 \in Sessions, u2 \in Sessions, i \in ItemIdsInUse :
    ( /\ items[i].type = "check"
      /\ Member(items[i].bucket_list_id, u1)
      /\ Member(items[i].bucket_list_id, u2) ) =>
      \A reply \in { TwiceToggled(u1, u2, i) } :
        /\ reply.status = 200
        /\ reply.items[i].is_checked = items[i].is_checked
        /\ reply.items[i].checked_by = NULL
        /\ reply.items[i].checked_at = NULL

(* C12 amended: two successive toggles of a checkbox item by members
   return is_checked to its value; checked_by and checked_at end cleared
   when the item was unchecked, and end as the second actor and a time when
   the item was checked. *)
C12_ToggleTwiceRestoresChecked ==
  \A u1 \in Sessions, u2 \in Sessions, i \in ItemIdsInUse :
    ( /\ items[i].type = "check"
      /\ Member(items[i].bucket_list_id, u1)
      /\ Member(items[i].bucket_list_id, u2) ) =>
      \A reply \in { TwiceToggled(u1, u2, i) } :
        /\ reply.status = 200
        /\ reply.items[i].is_checked = items[i].is_checked
        /\ IF items[i].is_checked = 0
             THEN reply.items[i].checked_by = NULL /\ reply.items[i].checked_at = NULL
             ELSE reply.items[i].checked_by = u2 /\ reply.items[i].checked_at # NULL

(* The only item has been created unchecked, checked and unchecked again. *)
C12_Witness ==
  /\ last.op = "toggle" /\ last.status = 200
  /\ Len(items) = 1
  /\ items[1].is_checked = 0 /\ items[1].checked_by = NULL

(* C13: toggleCheckbox on a counter item answers 400 and updateCounter on
   a checkbox item answers 400, whoever asks and whatever the delta; neither
   changes a row of items. *)
C13_WrongTypeRejected ==
  \A u \in Sessions, i \in ItemIdsInUse :
    /\ items[i].type = "counter" =>
         \A reply \in { toggleHandler(u, i) } :
           reply.status = 400 /\ reply.items = items
    /\ items[i].type = "check" =>
         \A d \in Deltas :
           \A reply \in { counterHandler(u, i, d) } :
             reply.status = 400 /\ reply.items = items

C13_Witness ==
  /\ last.op = "toggle" /\ last.status = 400
  /\ \E i \in ItemIdsInUse : items[i].type = "counter" /\ items[i].is_checked = 0

(* C14: updateCounter by a member on a counter item with value v and delta
   d answers 200 and stores clamp(v + d, 0, t) when the item has a target t,
   and max(0, v + d) when it has none. *)
clamp(x, lo, hi) == Max(lo, Min(x, hi))

C14_CounterStoresClamp ==
  \A u \in Sessions, i \in ItemIdsInUse, d \in CounterDeltas :
    (items[i].type = "counter" /\ Member(items[i].bucket_list_id, u)) =>
      \A reply \in { counterHandler(u, i, d) } :
        /\ reply.status = 200
        /\ reply.items[i].counter_value =
             IF items[i].counter_target # NULL
               THEN clamp(items[i].counter_value + d, 0, items[i].counter_target)
               ELSE Max(0, items[i].counter_value + d)

(* C15: the counter_value of every counter item is at least 0. *)
C15_CounterNeverNegative ==
  \A i \in ItemIdsInUse :
    items[i].type = "counter" => items[i].counter_value >= 0

(* C16: the counter_value of every counter item with a target is at most
   the target, from the creation of the item on. *)
C16_CounterAtMostTarget ==
  \A i \in ItemIdsInUse :
    (items[i].type = "counter" /\ items[i].counter_target # NULL) =>
      items[i].counter_value <= items[i].counter_target

(* C17: createList with a valid name answers "Failed to generate unique
   share code" (500) exactly when the first ten codes drawn in the request
   are all codes of existing lists, and then creates no list and no
   membership; when fewer than ten in a row collide it answers 200 and
   creates the list under the first code drawn that no list has, with its
   creator as member. *)
RECURSIVE CollisionsInARow(_, _)
CollisionsInARow(samples, from) ==
  IF from > Len(samples) THEN 0
  ELSE IF \E l \in ListIdsInUse : bucket_lists[l].share_code = samples[from]
    THEN 1 + CollisionsInARow(samples, from + 1)
    ELSE 0

C17_ExhaustedAfterTenCollisions ==
  \A exits \in { ShareCodeLoop(SampledCodes, 0) } :
  \A u \in Sessions, samples \in SampleRuns :
    \A exit \in { RunShareCodeLoop(samples, samples[1], 0) } :
      \A reply \in { createListHandler(u, <<" ","T"," ">>, exit, FALSE) } :
        \A n \in { CollisionsInARow(samples, 1) } :
            /\ exit \in exits
            /\ reply.error = "Failed to generate unique share code" <=> n >= 10
            /\ n >= 10 =>
                 /\ reply.status = 500
                 /\ reply.lists = bucket_lists
                 /\ reply.members = bucket_list_members
            /\ n < 10 =>
                 /\ reply.status = 200
                 /\ reply.lists = Append(bucket_lists,
                                         [name |-> <<"T">>, share_code |-> samples[n + 1],
                                          created_by |-> u, created_at |-> now])
                 /\ reply.members =
                      Append(bucket_list_members,
                             [user_id |-> u, bucket_list_id |-> Len(bucket_lists) + 1])

C17_Witness ==
  /\ last.op = "createList" /\ last.status = 500
  /\ last.error = "Failed to generate unique share code"
  /\ Len(bucket_lists) = 1

(* C18: for a list that user A created and a user B other than A: B's join
   with the lower-case form of the list's code succeeds and makes B a
   member; A's addItem of a checkbox item to the list succeeds and stores it
   unchecked; and once B is a member, B's toggle of an unchecked checkbox
   item of the list stores it with is_checked = 1 and checked_by = B. *)
C18_CreateJoinAddToggle ==
  \A l \in ListIdsInUse, b \in Sessions :
    \A a \in { bucket_lists[l].created_by } :
      b # a =>
        /\ ~Member(l, b) =>
             \A reply \in { joinListHandler(b, LowerCaseForm(bucket_lists[l].share_code)) } :
               /\ reply.status = 200
               /\ MemberRows(reply.members, l, b) # {}
        /\ \A reply \in { addItemHandler(a, l, SomeText, "check", NullText, NULL, NULL) } :
             /\ reply.status = 200
             /\ reply.items[reply.item].bucket_list_id = l
             /\ reply.items[reply.item].is_checked = 0
        /\ Member(l, b) =>
             \A i \in ItemIdsInUse :
               ( /\ items[i].bucket_list_id = l
                 /\ items[i].type = "check"
                 /\ items[i].is_checked = 0 ) =>
                 \A reply \in { toggleHandler(b, i) } :
                   /\ reply.status = 200
                   /\ reply.items[i].is_checked = 1
                   /\ reply.items[i].checked_by = b

(* The end of the scenario: ann's list, bob a member of it, its item
   checked by bob in the last request. *)
C18_Witness ==
  /\ last.op = "toggle" /\ last.status = 200
  /\ Len(bucket_lists) = 1 /\ bucket_lists[1].created_by = 1
  /\ Member(1, 1) /\ Member(1, 2)
  /\ Len(items) = 1 /\ items[1].bucket_list_id = 1
  /\ items[1].is_checked = 1 /\ items[1].checked_by = 2

(* C19 as claimed: while a toggle of an item has read the row and not yet
   written, another toggle of that item can read the same row. *)
C19_TogglesCanInterleave ==
  \A k \in 1..Len(pending) :
    pending[k].op = "toggle" =>
      \E u \in Sessions : ENABLED ToggleRead(u, pending[k].itemId)

(* C19 amended: a toggle that has read the row and not yet written is the
   only toggle of that item in progress, and the row it has read is the row
   stored, so that its write flips the stored value. *)
C19_TogglesDoNotInterleave ==
  \A k \in 1..Len(pending) :
    pending[k].op = "toggle" =>
      /\ pending[k].item = items[pending[k].itemId]
      /\ \A j \in 1..Len(pending) :
           (j # k /\ pending[j].op = "toggle") => pending[j].itemId # pending[k].itemId

(* A toggle in progress on an item that an earlier toggle has checked. *)
C19_Witness ==
  \E k \in 1..Len(pending) :
    /\ pending[k].op = "toggle"
    /\ pending[k].item.is_checked = 1
    /\ last.op = "toggle" /\ last.status = 200

(* C20 as claimed: while an update of a counter has read the row and not
   yet written, another update of that counter can read the same row. *)
C20_CounterUpdatesCanInterleave ==
  \A k \in 1..Len(pending) :
    pending[k].op = "counter" =>
      \E u \in Sessions, d \in Deltas \ {NULL} :
        ENABLED CounterRead(u, pending[k].itemId, d)

(* C20 amended: an update that has read the row and not yet written is the
   only update of that counter in progress, and the value it is to write is
   the clamped sum of the stored value and its delta: no delta is lost. *)
C20_NoLostUpdate ==
  \A k \in 1..Len(pending) :
    pending[k].op = "counter" =>
      /\ clampedValue(pending[k].item, pending[k].delta) =
           clampedValue(items[pending[k].itemId], pending[k].delta)
      /\ \A j \in 1..Len(pending) :
           (j # k /\ pending[j].op = "counter") => pending[j].itemId # pending[k].itemId

(* An update in progress on a counter that an earlier update has raised. *)
C20_Witness ==
  \E k \in 1..Len(pending) :
    /\ pending[k].op = "counter"
    /\ pending[k].delta = -1
    /\ pending[k].item.counter_value = 1
    /\ last.op = "counter" /\ last.status = 200

(* C21: a registration that succeeds returns the id of the row it inserts
   with the username and the hash of the password; no later request changes
   a user row; and in every state a login with the username of a row and a
   password whose hash the row holds answers 200 with the id of that row. *)
LoginReturnsRegisteredId ==
  /\ \A i \in 1..Len(users), p \in AuthPasswords :
       users[i].password_hash = bcryptHash(p) =>
         \A reply \in { loginHandler(users[i].username, p) } :
           reply.status = 200 /\ reply.id = i
  /\ \A k \in 1..Len(pending) :
       \A reply \in { registerInsert(pending[k].username,
                                      bcryptHash(pending[k].password)) } :
         reply.status = 200 =>
           /\ Len(pending[k].username) >= 3 /\ Len(pending[k].password) >= 6
           /\ reply.id = Len(users) + 1
           /\ reply.users = Append(users, [username |-> pending[k].username,
                                           password_hash |-> bcryptHash(pending[k].password)])

UserRowsKept == \A i \in 1..Len(users) : i <= Len(users') /\ users'[i] = users[i]

C21_RegisterThenLogin == []LoginReturnsRegisteredId /\ [][UserRowsKept]_vars

C21_Witness ==
  /\ last.op = "login" /\ last.status = 200
  /\ Len(users) = 2 /\ users[1].password_hash # users[2].password_hash

(* C22: a registration whose username is taken when its row is to be
   inserted answers "Username already exists" (400) and inserts nothing. *)
C22_TakenAtInsertIsConflict ==
  \A k \in 1..Len(pending) :
    (\E i \in 1..Len(users) : users[i].username = pending[k].username) =>
      \A reply \in { registerInsert(pending[k].username,
                                     bcryptHash(pending[k].password)) } :
        /\ reply.status = 400
        /\ reply.error = "Username already exists"
        /\ reply.users = users

(* C23: the parent of an item is an item created before it, and following
   parent_item_id from any item reaches an item without parent and visits
   no item twice. *)
RECURSIVE ReachesRoot(_, _)
ReachesRoot(i, seen) ==
  IF items[i].parent_item_id = NULL THEN TRUE
  ELSE /\ items[i].parent_item_id \in ItemIdsInUse
       /\ items[i].parent_item_id \notin seen \cup {i}
       /\ Cardinality(seen) < Len(items)
       /\ ReachesRoot(items[i].parent_item_id, seen \cup {i})

C23_ParentsAcyclic ==
  \A i \in ItemIdsInUse :
    /\ ReachesRoot(i, {})
    /\ items[i].parent_item_id # NULL => items[i].parent_item_id < i

C23_Witness ==
  /\ last.op = "addItem" /\ last.status = 200
  /\ Len(items) = MaxItems
  /\ \A i \in 2..Len(items) : items[i].parent_item_id = i - 1

(* C24: every result of the lists of user u holds exactly the lists of
   which u is a member, each once, from the list created last to the list
   created first. *)
C24_ListsNewestFirst ==
  \A u \in Sessions :
    \A r \in getUserBucketLists(u) :
      /\ { r[i] : i \in 1..Len(r) } = { l \in ListIdsInUse : Member(l, u) }
      /\ \A i \in 1..Len(r), j \in 1..Len(r) : i < j => r[i] > r[j]

(* C25: every result of the items of list l holds exactly the items of l,
   each once; every item without parent comes before every item with one;
   the items of one parent are contiguous; and the items of one group come
   in the order of their creation. *)
C25_ItemsGroupedInCreationOrder ==
  \A l \in ListIdsInUse :
    \A r \in getItemsOrder(l) :
      LET parent(i) == items[r[i]].parent_item_id
      IN  /\ { r[i] : i \in 1..Len(r) } = { x \in ItemIdsInUse : items[x].bucket_list_id = l }
          /\ \A i \in 1..Len(r), j \in 1..Len(r) :
               i < j =>
                 /\ ~(parent(i) # NULL /\ parent(j) = NULL)
                 /\ parent(i) = parent(j) =>
                      /\ r[i] < r[j]
                      /\ \A k \in i..j : parent(k) = parent(i)

(* C26: no step removes a user, a list, a membership or an item: every row
   of the state before the step is there after it under the same id, and
   every member of a list is still a member of it. *)
RowsKept ==
  /\ \A i \in 1..Len(users) :
       i <= Len(users') /\ users'[i].username = users[i].username
  /\ \A l \in 1..Len(bucket_lists) :
       l <= Len(bucket_lists') /\ bucket_lists'[l].share_code = bucket_lists[l].share_code
  /\ \A l \in 1..Len(bucket_lists), u \in 1..Len(users) :
       MemberRows(bucket_list_members, l, u) # {} => MemberRows(bucket_list_members', l, u) # {}
  /\ \A i \in 1..Len(items) :
       i <= Len(items') /\ items'[i].bucket_list_id = items[i].bucket_list_id

C26_TablesOnlyGrow == [][RowsKept]_vars

C26_Witness ==
  /\ Len(users) = 2
  /\ Len(bucket_lists) = 2
  /\ Len(items) = 2
  /\ MemberRows(bucket_list_members, 1, 1) # {}
  /\ MemberRows(bucket_list_members, 1, 2) # {}
  /\ \E i \in 1..Len(items) : items[i].is_checked = 1
  /\ \E i \in 1..Len(items) : items[i].counter_value = 1

(* C27: whatever lists exist, the share-code loop of a creation request
   comes to an end having drawn at most 11 codes, the one before the loop
   and one for each of at most 10 retries, and the request then either
   creates the list or answers "Failed to generate unique share code",
   also when every code drawn is the code of an existing list. *)
C27_LoopDrawsAtMostEleven ==
  \A u \in Sessions :
    \A exit \in ShareCodeLoop(SampledCodes, 0) :
      \A reply \in { createListHandler(u, <<"T">>, exit, FALSE) } :
        /\ exit.attempts + 1 <= 11
        /\ \/ /\ reply.status = 200
              /\ Len(reply.lists) = Len(bucket_lists) + 1
           \/ /\ reply.status = 500
              /\ reply.error = "Failed to generate unique share code"
              /\ reply.lists = bucket_lists

C27_Witness ==
  /\ \A c \in SampledCodes : \E l \in ListIdsInUse : bucket_lists[l].share_code = c
  /\ last.op = "createList"
  /\ last.error = "Failed to generate unique share code"

(* C28: when a creation request answers "Failed to generate unique share
   code", every code drawn during the request is the code of an existing
   list. *)
C28_ExhaustedOnlyIfAllCollide ==
  \A u \in Sessions, samples \in SampleRuns :
    \A exit \in { RunShareCodeLoop(samples, samples[1], 0) } :
      \A reply \in { createListHandler(u, <<"T">>, exit, FALSE) } :
        reply.error = "Failed to generate unique share code" =>
          \A i \in 1..(exit.attempts + 1) :
            \E l \in ListIdsInUse : bucket_lists[l].share_code = samples[i]

(* C29: addItem answers with the first failure that applies, in this order:
   InvalidInput (400) for a blank text or a type other than check and
   counter, NotFound (404, list) for a list that does not exist, Forbidden
   (403) for an actor who is not a member, NotFound (404, parent) for a
   parent item that does not exist, InvalidInput (400) for a parent item of
   another list; otherwise it succeeds. *)
InvalidInputErrors ==
  { "Bucket list ID and item text are required", "Item type must be check or counter" }

LaterFailures(u, r) ==
  IF r.bucket_list_id \notin ListIdsInUse
    THEN [status |-> 404, errors |-> {"Bucket list not found"}]
  ELSE IF ~Member(r.bucket_list_id, u)
    THEN [status |-> 403, errors |-> {"Access denied"}]
  ELSE IF r.parent_item_id # NULL /\ r.parent_item_id \notin ItemIdsInUse
    THEN [status |-> 404, errors |-> {"Parent item not found"}]
  ELSE IF r.parent_item_id # NULL /\ items[r.parent_item_id].bucket_list_id # r.bucket_list_id
    THEN [status |-> 400, errors |-> {"Parent item must belong to the same bucket list"}]
  ELSE [status |-> 200, errors |-> {""}]

Answers(u, r, expected) ==
  \A reply \in { addItemHandler(u, r.bucket_list_id, r.text, r.type, NullText,
                                 r.parent_item_id, NULL) } :
    /\ reply.status = expected.status
    /\ reply.error \in expected.errors
    /\ reply.status # 200 => reply.items = items

C29_FirstFailureInOrder ==
  \A u \in Sessions, r \in AddItemInputs :
    Answers(u, r, IF Blank(r.text) \/ r.type \notin {"check", "counter"}
                    THEN [status |-> 400, errors |-> InvalidInputErrors]
                    ELSE LaterFailures(u, r))

(* C29 as amended: the same order, with InvalidInput (400) also for a
   request whose bucket_list_id is missing or 0, before the list is looked
   up. *)
C29_FirstFailureInOrderAfterBodyCheck ==
  \A u \in Sessions, r \in AddItemInputs :
    Answers(u, r, IF \/ r.bucket_list_id \in {NULL, 0}
                     \/ Blank(r.text)
                     \/ r.type \notin {"check", "counter"}
                    THEN [status |-> 400, errors |-> InvalidInputErrors]
                    ELSE LaterFailures(u, r))

C29_Witness ==
  /\ last.op = "addItem" /\ last.status = 404
  /\ last.error = "Parent item not found"
  /\ items # <<>>
  /\ \E u \in Sessions, l \in ListIdsInUse : ~Member(l, u)

(* C30: the item that a successful addItem creates has counter_value 0,
   is_checked 0 and no checked_by, for check items and counter items,
   whatever counter_target the request names. *)
C30_NewItemStartsCleared ==
  \A u \in Sessions, l \in ListIdsInUse, ty \in {"check", "counter"} :
    \A t \in CounterTargets :
      \A reply \in { addItemHandler(u, l, SomeText, ty, NullText, NULL, t) } :
        reply.status = 200 =>
          /\ Len(reply.items) = Len(items) + 1
          /\ reply.item = Len(items) + 1
          /\ reply.items[reply.item].type = ty
          /\ reply.items[reply.item].counter_value = 0
          /\ reply.items[reply.item].is_checked = 0
          /\ reply.items[reply.item].checked_by = NULL

C30_Witness ==
  /\ last.op = "addItem" /\ last.status = 200
  /\ Len(items) = 2
  /\ items[1].type = "check" /\ items[1].is_checked = 1
  /\ items[2].type = "counter" /\ items[2].counter_value = 0

(* C31: a counter item created with counter_target 0 is stored with the
   target 0, not without target, and the counter_value of every item whose
   target is 0 is 0. *)
C31_ZeroTargetIsSet ==
  /\ \A u \in Sessions, l \in ListIdsInUse :
       Member(l, u) =>
         \A reply \in { addItemHandler(u, l, SomeText, "counter", NullText, NULL, 0) } :
           /\ reply.status = 200
           /\ reply.items[reply.item].counter_target = 0
  /\ \A i \in ItemIdsInUse :
       (items[i].type = "counter" /\ items[i].counter_target = 0) =>
         items[i].counter_value = 0

(* C32: a toggle changes nothing but is_checked, checked_by and checked_at
   of the item it names, and a counter update nothing but counter_value of
   the item it names: every other item and every other field of that item
   are as before, and so are all lists, memberships and users. *)
ItemFields ==
  { "bucket_list_id", "text", "type", "description", "parent_item_id", "is_checked",
    "checked_by", "checked_at", "counter_value", "counter_target", "created_at" }

OnlyChanged(old, new, itemId, fields) ==
  /\ Len(new) = Len(old)
  /\ \A i \in 1..Len(old) :
       IF i = itemId
         THEN /\ DOMAIN new[i] = ItemFields
              /\ \A f \in ItemFields \ fields : new[i][f] = old[i][f]
         ELSE new[i] = old[i]

HandlersWriteOneItem ==
  \A u \in Sessions, i \in ItemIds :
    /\ \A reply \in { toggleHandler(u, i) } :
         OnlyChanged(items, reply.items, i, {"is_checked", "checked_by", "checked_at"})
    /\ \A d \in {-1, 1} :
         \A reply \in { counterHandler(u, i, d) } :
           OnlyChanged(items, reply.items, i, {"counter_value"})

StepWritesOneItem ==
  last'.op \in {"toggle", "counter"} =>
    /\ users' = users
    /\ bucket_lists' = bucket_lists
    /\ bucket_list_members' = bucket_list_members
    /\ \E i \in ItemIds :
         OnlyChanged(items, items', i,
                     IF last'.op = "toggle" THEN {"is_checked", "checked_by", "checked_at"}
                                            ELSE {"counter_value"})

C32_ToggleAndCounterFrame == []HandlersWriteOneItem /\ [][StepWritesOneItem]_vars

C32_Witness ==
  /\ last.op = "counter" /\ last.status = 200
  /\ \E i \in ItemIdsInUse : items[i].type = "counter" /\ items[i].counter_value = 1
  /\ \E i \in ItemIdsInUse : items[i].type = "check" /\ items[i].is_checked = 1

(* C33: a register, createList, joinList, addItem, toggle or counter
   request that is answered InvalidInput, Conflict or AlreadyMember (400),
   Forbidden (403) or NotFound (404) leaves users, lists, memberships and
   items as they were. *)
Refused ==
  /\ last'.op \in {"register", "createList", "joinList", "addItem", "toggle", "counter"}
  /\ last'.status \in {400, 403, 404}

TablesUnchanged ==
  /\ users' = users
  /\ bucket_lists' = bucket_lists
  /\ bucket_list_members' = bucket_list_members
  /\ items' = items

C33_RefusedRequestsWriteNothing == [][Refused => TablesUnchanged]_vars

C33_Witness ==
  /\ last.op = "toggle" /\ last.status = 403
  /\ \E i \in ItemIdsInUse : items[i].type = "check" /\ ~Member(items[i].bucket_list_id, 2)
  /\ Len(users) = 2

(* C34: for every item, checked_by is set exactly when is_checked is 1, and
   so is checked_at; and a user named by checked_by is a member of the
   list of the item. *)
C34_CheckerSetIffChecked ==
  \A i \in ItemIdsInUse :
    /\ items[i].is_checked \in {0, 1}
    /\ items[i].checked_by # NULL <=> items[i].is_checked = 1
    /\ items[i].checked_at # NULL <=> items[i].is_checked = 1
    /\ items[i].checked_by # NULL =>
         /\ items[i].checked_by \in 1..Len(users)
         /\ Member(items[i].bucket_list_id, items[i].checked_by)

C34_Witness ==
  /\ last.op = "toggle" /\ last.status = 200
  /\ Len(items) = 2
  /\ items[1].is_checked = 0 /\ items[1].type = "check" /\ items[1].bucket_list_id = 2
  /\ items[2].is_checked = 1 /\ items[2].checked_by = 1

(* C35: every counter item has is_checked 0 and no checked_by, and every
   check item has counter_value 0. *)
C35_OtherTypeFieldsUntouched ==
  \A i \in ItemIdsInUse :
    /\ items[i].type \in {"check", "counter"}
    /\ items[i].type = "counter" =>
         items[i].is_checked = 0 /\ items[i].checked_by = NULL
    /\ items[i].type = "check" => items[i].counter_value = 0

C35_Witness ==
  /\ last.op = "toggle" /\ last.status = 400
  /\ \E i \in ItemIdsInUse : items[i].type = "counter" /\ items[i].counter_value = 1
  /\ \E i \in ItemIdsInUse : items[i].type = "check" /\ items[i].is_checked = 1

(* C36: no two user rows have the same username, whatever the order in
   which the halves of concurrent registrations run. *)
C36_UsernamesUnique ==
  \A i \in 1..Len(users), j \in 1..Len(users) :
    users[i].username = users[j].username => i = j

C36_Witness ==
  /\ Len(users) = 2
  /\ last.op = "register" /\ last.status = 500
  /\ pending = <<>>

====
